---- MODULE Spec2Model ----
(***************************************************************************)
(* The YARA rule submission platform: the API service (src/api/main.py)    *)
(* with its process-wide session store, the cooldown between uploads and   *)
(* the submit handler, whose await points make it a three-step process.    *)
(*                                                                         *)
(* Time is time.time(): a float number of seconds.  The model counts it in *)
(* ticks of 1/Res seconds so that elapsed times that are not whole seconds *)
(* exist; every duration of the program is scaled by Res.                  *)
(***************************************************************************)
EXTENDS Integers, Sequences, FiniteSets, TLC

\* ------------------------------------------------------------ constants
RATE_LIMIT_SECONDS == 60
SESSION_EXPIRY_SECONDS == 3600
AVAILABLE_LABS == {"lab1", "lab2"}
\* httpx.AsyncClient(timeout=30.0)
CLIENT_TIMEOUT_SECONDS == 30

\* --------------------------------------------------------------- bounds
\* clock ticks per second
Res == 2
\* session ids uuid4 can mint in one run
MaxIds == 2
\* submit requests in flight at once
NReq == 2
\* number of times the clock is seen to advance
MaxTicks == 2
\* largest file count of a corpus
MaxFiles == 5
\* largest number of regular files in a directory the scanner scans
MaxDirFiles == 2
\* largest number of entries in the engine's list of matches
MaxReport == 2

RateTicks == RATE_LIMIT_SECONDS * Res
ExpiryTicks == SESSION_EXPIRY_SECONDS * Res

\* request.cookies.get("session_id") when the request carries no cookie
NoCookie == 0
\* a cookie value the store holds no record for and uuid4 never minted here
StrayId == MaxIds + 1
Requests == 1..NReq

\* the clock at start-up: the epoch itself, or long after it
StartTimes == {0, 10 * ExpiryTicks}
\* what the clock advances by between two observations
Deltas == {1, RateTicks - 1, ExpiryTicks - 1}

VARIABLES now, ticks, session_data, nextId, req, accepted, minted_at, last,
          verdict, scan

apiVars == <<now, ticks, session_data, nextId, req, accepted, minted_at, last>>
vars == <<now, ticks, session_data, nextId, req, accepted, minted_at, last,
          verdict, scan>>

\* ------------------------------------------------------- uploaded files
\* A file is its bytes: decodable as UTF-8 or not, and when decodable a
\* text, here a sequence of maximal runs: the word "rule", another word
\* "w", white space "ws", the braces, and any other character "x".
Contents == <<
    [decodable |-> TRUE,  text |-> <<"rule", "ws", "w", "ws", "{", "x", "}">>],
    [decodable |-> TRUE,  text |-> <<"w", "ws", "w", "ws", "rule">>],
    [decodable |-> TRUE,  text |-> <<"rule", "ws", "w", "ws", "x">>],
    [decodable |-> TRUE,  text |-> <<"ws">>],
    [decodable |-> FALSE, text |-> <<>>] >>

IsWord(tok) == tok \in {"rule", "w"}

\* re.search(r'\brule\s+\w+', content)
HasRuleKeyword(text) ==
    \E i \in 1..Len(text) :
        /\ i + 2 <= Len(text)
        /\ text[i] = "rule" /\ text[i + 1] = "ws" /\ IsWord(text[i + 2])

\* re.search(r'\brule\s+\w+\s*\{[\s\S]*\}', content)
HasRuleBody(text) ==
    \E i \in 1..Len(text) :
        /\ i + 2 <= Len(text)
        /\ text[i] = "rule" /\ text[i + 1] = "ws" /\ IsWord(text[i + 2])
        /\ LET open == IF i + 3 <= Len(text) /\ text[i + 3] = "ws"
                       THEN i + 4 ELSE i + 3
           IN  /\ open <= Len(text)
               /\ text[open] = "{"
               /\ \E j \in (open + 1)..Len(text) : text[j] = "}"

\* mutant: the check of the braces is left out
validate_yara_rule_keyword_only(text) ==
    IF \A i \in 1..Len(text) : text[i] = "ws" THEN FALSE
    ELSE IF ~HasRuleKeyword(text) THEN FALSE
    ELSE TRUE

validate_yara_rule(text) ==
    IF \A i \in 1..Len(text) : text[i] = "ws" THEN FALSE
    ELSE IF ~HasRuleKeyword(text) THEN FALSE
    ELSE IF ~HasRuleBody(text) THEN FALSE
    ELSE TRUE

\* -------------------------------------------------------- session store
NewSession(created_at, last_upload) ==
    [created_at |-> created_at, last_upload |-> last_upload]

Remove(sd, ids) == [s \in DOMAIN sd \ ids |-> sd[s]]
Put(sd, id, rec) == [s \in DOMAIN sd \cup {id} |-> IF s = id THEN rec ELSE sd[s]]

\* mutant: a session of exactly the expiry age is not yet expired
is_session_expired_strict(sd, session_id) ==
    IF session_id \notin DOMAIN sd THEN TRUE
    ELSE (now - sd[session_id].created_at) > ExpiryTicks

is_session_expired(sd, session_id) ==
    IF session_id \notin DOMAIN sd THEN TRUE
    ELSE (now - sd[session_id].created_at) >= ExpiryTicks

\* mutant: the sweep spares a record of exactly the expiry age
cleanup_expired_sessions_strict(sd) ==
    LET expired_sessions ==
            {s \in DOMAIN sd : (now - sd[s].created_at) > ExpiryTicks}
    IN  Remove(sd, expired_sessions)

cleanup_expired_sessions(sd) ==
    LET expired_sessions ==
            {s \in DOMAIN sd : (now - sd[s].created_at) >= ExpiryTicks}
    IN  Remove(sd, expired_sessions)

\* mutant: resolving an unexpired session renews its created_at
get_or_create_session_sliding(sd0, cookie, sweep, fresh) ==
    LET sd == IF sweep THEN cleanup_expired_sessions(sd0) ELSE sd0
    IN  IF cookie = NoCookie \/ is_session_expired(sd, cookie)
        THEN LET sd1 == IF cookie # NoCookie /\ cookie \in DOMAIN sd
                        THEN Remove(sd, {cookie}) ELSE sd
             IN  [session_id |-> fresh, minted |-> TRUE,
                  sd |-> Put(sd1, fresh, NewSession(now, 0))]
        ELSE [session_id |-> cookie, minted |-> FALSE,
              sd |-> [sd EXCEPT ![cookie].created_at = now]]

\* sweep is the outcome of random.random() < 0.1; fresh is what uuid4 gives
get_or_create_session(sd0, cookie, sweep, fresh) ==
    LET sd == IF sweep THEN cleanup_expired_sessions(sd0) ELSE sd0
    IN  IF cookie = NoCookie \/ is_session_expired(sd, cookie)
        THEN LET sd1 == IF cookie # NoCookie /\ cookie \in DOMAIN sd
                        THEN Remove(sd, {cookie}) ELSE sd
             IN  [session_id |-> fresh, minted |-> TRUE,
                  sd |-> Put(sd1, fresh, NewSession(now, 0))]
        ELSE [session_id |-> cookie, minted |-> FALSE,
              sd |-> IF cookie \notin DOMAIN sd
                     THEN Put(sd, cookie, NewSession(now, 0)) ELSE sd]

\* int(x) of a positive x given in ticks
IntSeconds(x) == x \div Res

\* mutant: an upload exactly one window old still throttles
check_rate_limit_strict(sd, session_id) ==
    LET last_upload == IF session_id \in DOMAIN sd
                       THEN sd[session_id].last_upload ELSE 0
    IN  IF now - last_upload > RateTicks
        THEN [allowed |-> TRUE, seconds_remaining |-> 0]
        ELSE [allowed |-> FALSE,
              seconds_remaining |-> IntSeconds(RateTicks - (now - last_upload)) + 1]

check_rate_limit(sd, session_id) ==
    LET last_upload == IF session_id \in DOMAIN sd
                       THEN sd[session_id].last_upload ELSE 0
    IN  IF now - last_upload >= RateTicks
        THEN [allowed |-> TRUE, seconds_remaining |-> 0]
        ELSE [allowed |-> FALSE,
              seconds_remaining |-> IntSeconds(RateTicks - (now - last_upload)) + 1]

\* mutant: the upload stamps created_at instead of last_upload
record_upload_created(sd, session_id) ==
    IF session_id \in DOMAIN sd
    THEN [sd EXCEPT ![session_id].created_at = now]
    ELSE Put(sd, session_id, NewSession(now, now))

\* lines 210-219 of submit_rule
record_upload(sd, session_id) ==
    IF session_id \in DOMAIN sd
    THEN [sd EXCEPT ![session_id].last_upload = now]
    ELSE Put(sd, session_id, NewSession(now, now))

\* ------------------------------------------------------------- verdicts
CorpusResults == [total_files : 0..MaxFiles, matched_files : 0..MaxFiles]
Results ==
    {[lab |-> l, benign |-> b, random |-> r] :
        l \in CorpusResults,
        b \in {c \in CorpusResults : c.total_files = MaxFiles},
        r \in {c \in CorpusResults : c.total_files = MaxFiles}}

\* mutant: the lab counts are looked at before the false positives
determine_scan_status_lab_first(result) ==
    LET benign_matched == result.benign.matched_files
        random_matched == result.random.matched_files
        lab_matched == result.lab.matched_files
        lab_total == result.lab.total_files
    IN  IF lab_matched = 0 THEN "None Detected"
        ELSE IF lab_matched < lab_total THEN "Partial Samples Detected"
        ELSE IF benign_matched > 0 THEN "False Positive Detected (benign)"
        ELSE IF random_matched > 0 THEN "False Positive Detected (random)"
        ELSE "All Samples Detected"

determine_scan_status(result) ==
    LET benign_matched == result.benign.matched_files
        random_matched == result.random.matched_files
        lab_matched == result.lab.matched_files
        lab_total == result.lab.total_files
    IN  IF benign_matched > 0 THEN "False Positive Detected (benign)"
        ELSE IF random_matched > 0 THEN "False Positive Detected (random)"
        ELSE IF lab_matched = 0 THEN "None Detected"
        ELSE IF lab_matched < lab_total THEN "Partial Samples Detected"
        ELSE "All Samples Detected"

\* the verdict last classified: none yet
NoVerdict ==
    [classified |-> FALSE,
     result |-> [lab |-> [total_files |-> 0, matched_files |-> 0],
                 benign |-> [total_files |-> 0, matched_files |-> 0],
                 random |-> [total_files |-> 0, matched_files |-> 0]],
     scan_status |-> ""]

\* --------------------------------------------------- the scanner service
\* the three corpora of one evaluation: SAMPLES_DIR / lab_id, BENIGN_DIR,
\* RANDOM_DIR
Directories == {"lab", "benign", "random"}

\* A path the engine reports: whether the file lies directly inside the
\* scanned directory and was counted there, and its file name.
Paths == [counted : BOOLEAN, name : 1..MaxDirFiles]

\* Path(m["file"]).name
Name(path) == path.name

\* the "matches" list of a report
Reports == UNION {[1..k -> Paths] : k \in 0..MaxReport}

\* result.stdout: nothing but white space, text json.loads or the extraction
\* of the file names raises on, or a JSON object with its list of matches
BlankStdout == [parse |-> "blank", matches |-> <<>>]
Stdouts ==
    {BlankStdout, [parse |-> "malformed", matches |-> <<>>]}
        \cup {[parse |-> "report", matches |-> r] : r \in Reports}

\* What subprocess.run can end in: TimeoutExpired, another exception (the
\* engine cannot be started), or a completed process with its exit code and
\* its output.
NoRun == [kind |-> "none", returncode |-> 0, stdout |-> BlankStdout]
EngineRuns ==
    {[kind |-> k, returncode |-> 0, stdout |-> BlankStdout] :
        k \in {"timeout", "oserror"}}
        \cup {[kind |-> "exit", returncode |-> rc, stdout |-> o] :
                rc \in {0, 1}, o \in Stdouts}

CorpusResult(total_files, matched_files) ==
    [total_files |-> total_files, matched_files |-> matched_files]

\* mutant: a scan that timed out scores as matching every file
run_engine_fail_open(total, run) ==
    IF run.kind = "timeout" THEN CorpusResult(total, total)
    ELSE IF run.kind = "oserror" THEN CorpusResult(total, 0)
    ELSE IF run.stdout.parse = "blank" THEN CorpusResult(total, 0)
    ELSE IF run.stdout.parse = "malformed" THEN CorpusResult(total, 0)
    ELSE LET matches == run.stdout.matches
             matched_files == {Name(matches[i]) : i \in DOMAIN matches}
         IN  CorpusResult(total, Cardinality(matched_files))

\* the try block of scan_directory; the exit code is not looked at
run_engine(total, run) ==
    IF run.kind = "timeout" THEN CorpusResult(total, 0)
    ELSE IF run.kind = "oserror" THEN CorpusResult(total, 0)
    ELSE IF run.stdout.parse = "blank" THEN CorpusResult(total, 0)
    ELSE IF run.stdout.parse = "malformed" THEN CorpusResult(total, 0)
    ELSE LET matches == run.stdout.matches
             matched_files == {Name(matches[i]) : i \in DOMAIN matches}
         IN  CorpusResult(total, Cardinality(matched_files))

\* mutant: the engine is run on an empty directory too
scan_directory_always_runs(total, run) ==
    [result |-> run_engine(total, run), invoked |-> TRUE]

\* total is len(sample_files); run is what the engine does if it is invoked
scan_directory(total, run) ==
    IF total = 0
    THEN [result |-> CorpusResult(0, 0), invoked |-> FALSE]
    ELSE [result |-> run_engine(total, run), invoked |-> TRUE]

\* the order of the three scans in scan_with_yara
AfterScan(directory) ==
    CASE directory = "lab" -> "benign"
      [] directory = "benign" -> "random"
      [] directory = "random" -> "verdict"

\* the passed flag of scan_with_yara
passed(results) ==
    LET lab_passed == results["lab"].matched_files = results["lab"].total_files
        benign_passed == results["benign"].matched_files = 0
        random_passed == results["random"].matched_files = 0
    IN  lab_passed /\ benign_passed /\ random_passed

\* the most recent call of scan_directory: none yet
NoCall ==
    [directory |-> "", total |-> 0, invoked |-> FALSE, run |-> NoRun,
     result |-> CorpusResult(0, 0)]

\* One call of scan_with_yara: where it stands, whether the lab directory
\* exists, the number of regular files in each directory, whether the
\* temporary rule file exists now and whether the call created one, how often
\* scan_directory was called on each corpus and what it returned, the most
\* recent of these calls, and how the call ended ("LabNotFound": the error
\* result, "verdict": the three results and the passed flag, "raised": an
\* exception left the function).
IdleScan ==
    [pc |-> "idle", lab_dir |-> FALSE, files |-> [d \in Directories |-> 0],
     temp_file |-> FALSE, created |-> FALSE,
     calls |-> [d \in Directories |-> 0],
     results |-> [d \in Directories |-> CorpusResult(0, 0)],
     call |-> NoCall, outcome |-> "", passed |-> FALSE]

\* ------------------------------------------------- the scanner boundary
\* what the POST to the scanner can end in: a 2xx reply, or an exception
ScanExceptions == {"ConnectError", "ReadTimeout", "HTTPStatusError"}

\* httpx's exception classes, each with its base classes
Bases(cls) ==
    CASE cls = "ConnectError" ->
            {"ConnectError", "NetworkError", "TransportError", "RequestError", "HTTPError"}
      [] cls = "ReadTimeout" ->
            {"ReadTimeout", "TimeoutException", "TransportError", "RequestError", "HTTPError"}
      [] cls = "HTTPStatusError" ->
            {"HTTPStatusError", "HTTPError"}

\* the except clauses of submit_rule, in the order written
Handlers == <<
    [catches |-> "RequestError",     fault |-> "ScannerUnavailable", code |-> 503],
    [catches |-> "ConnectError",     fault |-> "ScannerUnavailable", code |-> 503],
    [catches |-> "TimeoutException", fault |-> "ScannerTimeout",     code |-> 504],
    [catches |-> "HTTPStatusError",  fault |-> "ScannerError",       code |-> 502] >>

\* the first except clause whose class the raised exception is an instance of
HandlerFor(exc) ==
    LET hits == {i \in 1..Len(Handlers) : Handlers[i].catches \in Bases(exc)}
    IN  Handlers[CHOOSE i \in hits : \A j \in hits : i <= j]

\* the replies the model draws for a 2xx answer of the scanner
ReplyResults ==
    {r \in Results :
        /\ r.lab.total_files = MaxFiles
        /\ r.lab.matched_files \in {1, MaxFiles}
        /\ r.benign.matched_files \in {0, 1}
        /\ r.random.matched_files = 0}

\* ------------------------------------------------------------- requests
\* a request in flight: where it stands in submit_rule, and its locals
IdleReq == [pc |-> "idle", session_id |-> NoCookie, lab_id |-> "", content |-> 0]

\* What the most recent step of a handler did: the step, the clock when it ran,
\* the cookie presented and the age of its record when the step resolved a
\* session (-1: no record), whether the resolution swept the store, what the
\* rate-limit check decided, the session id, whether a request went to the
\* scanner, the exception the scanner call raised, the response if the step
\* ended the request (fault "none", code 200: the submission was accepted), and
\* for an accepted submission the time since the session's previous accepted
\* one (-1: there was none).  again: the step resolved, as unexpired, the
\* session id that the step before it had resolved too, with no step of any
\* handler in between; prev_at and prev_allowed are then the clock and the
\* rate-limit decision of that earlier step.
NoStep ==
    [step |-> "none", at |-> 0, cookie |-> NoCookie, cookie_age |-> -1,
     session_id |-> NoCookie, lab_id |-> "", content |-> 0, sent |-> FALSE,
     exc |-> "", fault |-> "", code |-> 0, seconds_remaining |-> 0,
     scan_status |-> "", since_accept |-> -1, swept |-> FALSE,
     allowed |-> FALSE, again |-> FALSE, prev_at |-> 0, prev_allowed |-> FALSE]

Raise(l, fault, code, secs) ==
    [l EXCEPT !.fault = fault, !.code = code, !.seconds_remaining = secs]

LabInputs == {"lab1", "lab9"}

Cookies == {NoCookie, StrayId} \cup 1..(nextId - 1)

Age(sd, id) == IF id \in DOMAIN sd THEN now - sd[id].created_at ELSE -1

Init ==
    /\ now \in StartTimes
    /\ ticks = 0
    /\ session_data = <<>>
    /\ nextId = 1
    /\ req = [p \in Requests |-> IdleReq]
    /\ accepted = [s \in 1..MaxIds |-> -1]
    /\ minted_at = [s \in 1..MaxIds |-> -1]
    /\ last = NoStep
    /\ verdict = NoVerdict
    /\ scan = IdleScan

\* submit_rule up to its first await: resolve the session, check the rate
\* limit, validate the lab id
Start(p) ==
    /\ req[p].pc = "idle"
    /\ \E cookie \in Cookies, lab_id \in LabInputs, sweep \in BOOLEAN :
        LET g == get_or_create_session(session_data, cookie, sweep, nextId)
            rl == check_rate_limit(g.sd, g.session_id)
            again == /\ last.step = "start"
                     /\ last.session_id = cookie
                     /\ g.session_id = cookie
            l == [NoStep EXCEPT !.step = "start", !.at = now, !.cookie = cookie,
                                !.cookie_age = Age(session_data, cookie),
                                !.session_id = g.session_id, !.lab_id = lab_id,
                                !.swept = sweep,
                                !.allowed = rl.allowed,
                                !.again = again,
                                !.prev_at = IF again THEN last.at ELSE 0,
                                !.prev_allowed =
                                    IF again THEN last.allowed ELSE FALSE]
        IN  /\ g.minted => nextId <= MaxIds
            /\ session_data' = g.sd
            /\ nextId' = IF g.minted THEN nextId + 1 ELSE nextId
            /\ minted_at' = IF g.minted
                            THEN [minted_at EXCEPT ![g.session_id] = now]
                            ELSE minted_at
            /\ IF ~rl.allowed
               THEN /\ last' = Raise(l, "RateLimited", 429, rl.seconds_remaining)
                    /\ req' = req
               ELSE IF lab_id \notin AVAILABLE_LABS
               THEN /\ last' = Raise(l, "LabNotFound", 404, 0)
                    /\ req' = req
               ELSE /\ last' = l
                    /\ req' = [req EXCEPT ![p] =
                                [IdleReq EXCEPT !.pc = "read",
                                                !.session_id = g.session_id,
                                                !.lab_id = lab_id]]
    /\ UNCHANGED <<now, ticks, accepted, verdict, scan>>

\* after await file.read(): decode, validate the syntax, send to the scanner
ReadFile(p) ==
    /\ req[p].pc = "read"
    /\ \E content \in 1..Len(Contents) :
        LET c == Contents[content]
            l == [NoStep EXCEPT !.step = "read", !.at = now,
                                !.session_id = req[p].session_id,
                                !.lab_id = req[p].lab_id, !.content = content]
        IN  IF ~c.decodable
            THEN /\ last' = Raise(l, "InvalidEncoding", 400, 0)
                 /\ req' = [req EXCEPT ![p] = IdleReq]
            ELSE IF ~validate_yara_rule(c.text)
            THEN /\ last' = Raise(l, "InvalidRuleSyntax", 400, 0)
                 /\ req' = [req EXCEPT ![p] = IdleReq]
            ELSE /\ last' = [l EXCEPT !.sent = TRUE]
                 /\ req' = [req EXCEPT ![p] = [@ EXCEPT !.pc = "scan",
                                                        !.content = content]]
    /\ UNCHANGED <<now, ticks, session_data, nextId, accepted, minted_at, verdict,
                   scan>>

ScanStep(p) ==
    [NoStep EXCEPT !.step = "scan", !.at = now, !.session_id = req[p].session_id,
                   !.lab_id = req[p].lab_id, !.content = req[p].content,
                   !.sent = TRUE]

\* after await client.post(...): the call raised
ScanFailed(p) ==
    /\ req[p].pc = "scan"
    /\ \E exc \in ScanExceptions :
        LET h == HandlerFor(exc)
        IN  last' = Raise([ScanStep(p) EXCEPT !.exc = exc], h.fault, h.code, 0)
    /\ req' = [req EXCEPT ![p] = IdleReq]
    /\ UNCHANGED <<now, ticks, session_data, nextId, accepted, minted_at, verdict,
                   scan>>

\* after await client.post(...): the scanner answered 2xx
ScanReplied(p) ==
    /\ req[p].pc = "scan"
    /\ \E result \in ReplyResults :
        last' = [Raise(ScanStep(p), "none", 200, 0) EXCEPT
                    !.scan_status = determine_scan_status(result),
                    !.since_accept =
                        IF accepted[req[p].session_id] >= 0
                        THEN now - accepted[req[p].session_id] ELSE -1]
    /\ session_data' = record_upload(session_data, req[p].session_id)
    /\ accepted' = [accepted EXCEPT ![req[p].session_id] = now]
    /\ req' = [req EXCEPT ![p] = IdleReq]
    /\ UNCHANGED <<now, ticks, nextId, minted_at, verdict, scan>>

\* time.time() moves on.  While a handler is suspended in one of its awaits
\* (the read of the spooled upload, or the call to the scanner, which ends with
\* a reply or a timeout), no more than the client's timeout passes at once.
Tick ==
    /\ ticks < MaxTicks
    /\ \E d \in Deltas :
        /\ (\E p \in Requests : req[p].pc # "idle")
                => d <= CLIENT_TIMEOUT_SECONDS * Res
        /\ now' = now + d
    /\ ticks' = ticks + 1
    /\ UNCHANGED <<session_data, nextId, req, accepted, minted_at, last, verdict,
                   scan>>

Next ==
    \/ \E p \in Requests : Start(p)
    \/ \E p \in Requests : ReadFile(p)
    \/ \E p \in Requests : ScanFailed(p)
    \/ \E p \in Requests : ScanReplied(p)
    \/ Tick

Spec == Init /\ [][Next]_vars

\* --------------------------------------------- the verdict classification
\* determine_scan_status applied to every triple of corpus results
InitStatus ==
    /\ now = 0
    /\ ticks = 0
    /\ session_data = <<>>
    /\ nextId = 1
    /\ req = [p \in Requests |-> IdleReq]
    /\ accepted = [s \in 1..MaxIds |-> -1]
    /\ minted_at = [s \in 1..MaxIds |-> -1]
    /\ last = NoStep
    /\ verdict = NoVerdict
    /\ scan = IdleScan

Classify ==
    /\ \E result \in Results :
        verdict' = [classified |-> TRUE, result |-> result,
                    scan_status |-> determine_scan_status(result)]
    /\ UNCHANGED <<apiVars, scan>>

NextStatus == Classify

SpecStatus == InitStatus /\ [][NextStatus]_vars

\* ------------------------------------------------ one scanner evaluation
InitScan ==
    /\ now = 0
    /\ ticks = 0
    /\ session_data = <<>>
    /\ nextId = 1
    /\ req = [p \in Requests |-> IdleReq]
    /\ accepted = [s \in 1..MaxIds |-> -1]
    /\ minted_at = [s \in 1..MaxIds |-> -1]
    /\ last = NoStep
    /\ verdict = NoVerdict
    /\ scan = IdleScan

\* scan_with_yara up to its try block: the lab directory is looked up, the
\* temporary rule file is created and the rule text written to it; write_ok
\* is whether rule_file.write(rule_content) returns
Evaluate ==
    /\ scan.pc = "idle"
    /\ \E lab_dir \in BOOLEAN, write_ok \in BOOLEAN,
          files \in [Directories -> 0..MaxDirFiles] :
        /\ ~lab_dir => files["lab"] = 0
        /\ scan' =
            IF ~lab_dir
            THEN [IdleScan EXCEPT !.pc = "done", !.files = files,
                                  !.outcome = "LabNotFound"]
            ELSE IF ~write_ok
            THEN [IdleScan EXCEPT !.pc = "done", !.lab_dir = TRUE,
                                  !.files = files, !.temp_file = TRUE,
                                  !.created = TRUE, !.outcome = "raised"]
            ELSE [IdleScan EXCEPT !.pc = "lab", !.lab_dir = TRUE,
                                  !.files = files, !.temp_file = TRUE,
                                  !.created = TRUE]
    /\ UNCHANGED <<apiVars, verdict>>

\* the next call of scan_directory
ScanCorpus ==
    /\ scan.pc \in Directories
    /\ \E run \in EngineRuns :
        LET directory == scan.pc
            total == scan.files[directory]
            r == scan_directory(total, run)
        IN  scan' = [scan EXCEPT
                        !.pc = AfterScan(directory),
                        !.calls[directory] = @ + 1,
                        !.results[directory] = r.result,
                        !.call = [directory |-> directory, total |-> total,
                                  invoked |-> r.invoked,
                                  run |-> IF r.invoked THEN run ELSE NoRun,
                                  result |-> r.result]]
    /\ UNCHANGED <<apiVars, verdict>>

\* the passed flag, the return, and the finally clause that unlinks the rule
\* file; the API then classifies the result it was sent
Verdict ==
    /\ scan.pc = "verdict"
    /\ scan' = [scan EXCEPT !.pc = "done", !.outcome = "verdict",
                            !.passed = passed(scan.results),
                            !.temp_file = FALSE]
    /\ LET result == [lab |-> scan.results["lab"],
                      benign |-> scan.results["benign"],
                      random |-> scan.results["random"]]
       IN  verdict' = [classified |-> TRUE, result |-> result,
                       scan_status |-> determine_scan_status(result)]
    /\ UNCHANGED apiVars

NextScan ==
    \/ Evaluate
    \/ ScanCorpus
    \/ Verdict

SpecScan == InitScan /\ [][NextScan]_vars

\* ================================================================ claims
Minted == 1..MaxIds
Ceil(x) == (x + Res - 1) \div Res
InFlight(p) == req[p].pc \in {"read", "scan"}
Accepted(l) == l.step = "scan" /\ l.fault = "none"

\* C1: two submissions of one session that are in flight together never both
\* pass the rate-limit check, and no session has two submissions accepted
\* less than one cooldown window (60 s) apart.
C1_OnePerWindow ==
    /\ \A p, q \in Requests :
        (p # q /\ InFlight(p) /\ InFlight(q))
            => req[p].session_id # req[q].session_id
    /\ (Accepted(last) /\ last.since_accept >= 0)
            => last.since_accept >= RateTicks

\* C2: right after an upload is recorded for a session, check_rate_limit
\* refuses it with seconds_remaining >= 1; once 60 s or more (exactly 60 s
\* included) have passed since the session's last upload, it allows it.
C2_CooldownAfterUpload ==
    /\ (Accepted(last) /\ last.at = now)
            => LET rl == check_rate_limit(session_data, last.session_id)
               IN  ~rl.allowed /\ rl.seconds_remaining >= 1
    /\ \A s \in Minted :
        (accepted[s] >= 0 /\ now - accepted[s] >= RateTicks)
            => check_rate_limit(session_data, s).allowed

\* C2 witness: a session whose last upload is exactly 60 s old, and allowed
C2_Witness ==
    \E s \in DOMAIN session_data :
        /\ accepted[s] >= 0
        /\ now - accepted[s] = RateTicks
        /\ check_rate_limit(session_data, s).allowed

\* a submission that presents the credential of a session that had a
\* submission accepted less than 60 s before
WithinCooldown(l) ==
    /\ l.step = "start"
    /\ l.cookie \in Minted
    /\ accepted[l.cookie] >= 0
    /\ l.at - accepted[l.cookie] < RateTicks

\* C3 as stated: such a submission always faults RateLimited, whatever the
\* age of the session.
C3_AlwaysLimited == WithinCooldown(last) => last.fault = "RateLimited"

\* C3 amended: such a submission faults RateLimited provided the session has
\* not expired when it is presented (its record is less than 3600 s old).
C3_LimitedUnlessExpired ==
    (WithinCooldown(last) /\ last.cookie_age >= 0 /\ last.cookie_age < ExpiryTicks)
        => last.fault = "RateLimited"

\* C3 witness: a second submission strictly later than the accepted one,
\* inside the window, of an unexpired session, faulted RateLimited
C3_Witness ==
    /\ WithinCooldown(last)
    /\ last.at > accepted[last.cookie]
    /\ last.cookie_age >= 0 /\ last.cookie_age < ExpiryTicks
    /\ last.fault = "RateLimited"

\* C4: whenever check_rate_limit refuses a session that has uploaded,
\* seconds_remaining is the ceiling of 60 s minus the time since the upload,
\* and lies in 1..60.
C4_CeilingOfRemaining ==
    \A s \in DOMAIN session_data :
        LET rl == check_rate_limit(session_data, s)
        IN  (accepted[s] >= 0 /\ session_data[s].last_upload = accepted[s]
                /\ ~rl.allowed)
                => /\ rl.seconds_remaining = Ceil(RateTicks - (now - accepted[s]))
                   /\ rl.seconds_remaining \in 1..RATE_LIMIT_SECONDS

\* C5: resolving a presented id whose record is 3600 s old or older returns a
\* newly minted id other than the presented one, leaves no record under the
\* presented id, and creates the new id's record with created_at = now and
\* no upload.
C5_ExpiredMintsNew ==
    (last.step = "start" /\ last.cookie # NoCookie /\ last.cookie_age >= ExpiryTicks)
        => /\ last.session_id # last.cookie
           /\ last.session_id = nextId - 1
           /\ last.cookie \notin DOMAIN session_data
           /\ last.session_id \in DOMAIN session_data
           /\ session_data[last.session_id] = NewSession(last.at, 0)
           /\ accepted[last.session_id] = -1

\* C5 witness: a session presented at the age of exactly 3600 s, replaced
C5_Witness ==
    /\ last.step = "start"
    /\ last.cookie \in Minted
    /\ last.cookie_age = ExpiryTicks
    /\ last.session_id # last.cookie
    /\ last.session_id \in DOMAIN session_data

\* C6: resolving a presented id that is not expired returns that id; when the
\* store holds no record for it (a cookie the store never knew), a record is
\* created under that same id.
C6_UnexpiredKept ==
    (/\ last.step = "start"
     /\ last.cookie # NoCookie
     /\ \/ (last.cookie_age >= 0 /\ last.cookie_age < ExpiryTicks)
        \/ last.cookie = StrayId)
        => /\ last.session_id = last.cookie
           /\ last.cookie \in DOMAIN session_data

\* C7: a session with no upload recorded is allowed by check_rate_limit at
\* every value of the clock, and a submission without a session credential
\* is never faulted RateLimited.
C7_NeverUploadedAllowed ==
    /\ \A s \in DOMAIN session_data :
        accepted[s] = -1 => check_rate_limit(session_data, s).allowed
    /\ (last.step = "start" /\ last.cookie = NoCookie)
            => last.fault # "RateLimited"

\* the structural gate, as the design states it: a rule keyword, a name,
\* and braces after them
WellFormed(content) == HasRuleBody(Contents[content].text)
Decodable(content) == Contents[content].decodable
ValidationFaults ==
    {"RateLimited", "LabNotFound", "InvalidEncoding", "InvalidRuleSyntax"}
ScannerFaults == {"ScannerUnavailable", "ScannerTimeout", "ScannerError"}

\* C8: submit reports the fault of the earliest failing step, in the order
\* rate limit, lab id, decoding, syntax, scan; a submission that faults
\* RateLimited, LabNotFound, InvalidEncoding or InvalidRuleSyntax sent no
\* request to the scanner; and last_upload of every session is the time of
\* its last accepted submission (never, if it has none), so a submission that
\* faults leaves it as it was.
C8_ShortCircuit ==
    /\ (last.step = "start" /\ last.at = now)
            => LET rl == check_rate_limit(session_data, last.session_id)
               IN  /\ ~rl.allowed => last.fault = "RateLimited"
                   /\ (rl.allowed /\ last.lab_id \notin AVAILABLE_LABS)
                            => last.fault = "LabNotFound"
                   /\ (rl.allowed /\ last.lab_id \in AVAILABLE_LABS)
                            => last.fault = ""
    /\ last.step = "read"
            => /\ last.lab_id \in AVAILABLE_LABS
               /\ ~Decodable(last.content) => last.fault = "InvalidEncoding"
               /\ (Decodable(last.content) /\ ~WellFormed(last.content))
                        => last.fault = "InvalidRuleSyntax"
               /\ (Decodable(last.content) /\ WellFormed(last.content))
                        => (last.fault = "" /\ last.sent)
    /\ last.step = "scan"
            => /\ last.lab_id \in AVAILABLE_LABS
               /\ Decodable(last.content) /\ WellFormed(last.content)
               /\ last.fault \in ScannerFaults \cup {"none"}
    /\ last.fault \in ValidationFaults => ~last.sent
    /\ \A s \in DOMAIN session_data :
        session_data[s].last_upload = IF accepted[s] >= 0 THEN accepted[s] ELSE 0

\* C8 witness: a throttled session submits to an unknown lab and is answered
\* RateLimited
C8_Witness ==
    /\ last.step = "start"
    /\ last.lab_id \notin AVAILABLE_LABS
    /\ last.cookie \in Minted
    /\ accepted[last.cookie] >= 0
    /\ last.fault = "RateLimited"
    /\ ~last.sent

\* C9: every triple of corpus results gets exactly one of the five labels,
\* the first that applies in the order benign false positive, random false
\* positive, no lab match, partial lab match, full detection.
C9_StatusByPriority ==
    verdict.classified
        => LET st == verdict.scan_status
               bm == verdict.result.benign.matched_files
               rm == verdict.result.random.matched_files
               lm == verdict.result.lab.matched_files
               lt == verdict.result.lab.total_files
           IN  /\ st \in {"False Positive Detected (benign)",
                          "False Positive Detected (random)", "None Detected",
                          "Partial Samples Detected", "All Samples Detected"}
               /\ st = "False Positive Detected (benign)" <=> bm > 0
               /\ st = "False Positive Detected (random)" <=> (bm = 0 /\ rm > 0)
               /\ st = "None Detected" <=> (bm = 0 /\ rm = 0 /\ lm = 0)
               /\ st = "Partial Samples Detected"
                    <=> (bm = 0 /\ rm = 0 /\ lm > 0 /\ lm < lt)
               /\ st = "All Samples Detected"
                    <=> (bm = 0 /\ rm = 0 /\ lm > 0 /\ lm >= lt)

\* C9 witness: lab = (3, 5), benign = 1, random = 0 is the benign false positive
C9_Witness ==
    /\ verdict.classified
    /\ verdict.result.lab = [total_files |-> 5, matched_files |-> 3]
    /\ verdict.result.benign.matched_files = 1
    /\ verdict.result.random.matched_files = 0
    /\ verdict.scan_status = "False Positive Detected (benign)"

\* C10: a connection failure is reported as ScannerUnavailable, a timeout of
\* the scan request as ScannerTimeout, a non-2xx reply as ScannerError.
C10_DistinctScannerFaults ==
    last.exc # ""
        => /\ "ConnectError" \in Bases(last.exc) => last.fault = "ScannerUnavailable"
           /\ "TimeoutException" \in Bases(last.exc) => last.fault = "ScannerTimeout"
           /\ "HTTPStatusError" \in Bases(last.exc) => last.fault = "ScannerError"

\* a response that reports one of the seven fault kinds
IsFault(l) == l.fault \in ValidationFaults \cup ScannerFaults

\* C11: the response code alone determines the fault kind: two faults answered
\* one after the other with the same code are of the same kind.
C11_CodeDeterminesFault ==
    [][(IsFault(last) /\ IsFault(last') /\ last.code = last'.code)
            => last.fault = last'.fault]_vars

\* ------------------------------------------------------ scanner claims
NoCalls == \A d \in Directories : scan.calls[d] = 0
OneCallEach == \A d \in Directories : scan.calls[d] = 1
Called == scan.call.directory # ""

\* C12: an evaluation ends either in LabNotFound, with no scan and no
\* temporary file, when the lab directory is missing, or else in a verdict
\* after exactly one scan of each of the three corpora.
C12_AllOrNothing ==
    /\ \A d \in Directories : scan.calls[d] <= 1
    /\ scan.pc = "done" =>
        IF ~scan.lab_dir
        THEN scan.outcome = "LabNotFound" /\ NoCalls /\ ~scan.created
        ELSE scan.outcome = "verdict" /\ OneCallEach

\* the engine did not complete with exit code 0 and a well-formed output
Faulted(run) ==
    \/ run.kind \in {"timeout", "oserror"}
    \/ run.kind = "exit" /\ (run.returncode # 0 \/ run.stdout.parse = "malformed")

\* the same, and the engine left no report that can be parsed
FaultedWithoutReport(run) ==
    Faulted(run) /\ ~(run.kind = "exit" /\ run.stdout.parse = "report")

\* C13 (as stated): a scan of a non-empty directory whose engine run timed
\* out, exited with a fault or printed a malformed report returns
\* matched_files = 0 with the directory's file count, and does not raise.
C13_FaultScoresZero ==
    (Called /\ scan.call.invoked /\ Faulted(scan.call.run)) =>
        /\ scan.call.result = CorpusResult(scan.files[scan.call.directory], 0)
        /\ scan.outcome # "raised"

\* C13 (amended): the same for an engine run that timed out, could not be
\* started, printed a malformed report, or exited with a fault without
\* printing a report that can be parsed.
C13_FaultWithoutReportScoresZero ==
    (Called /\ scan.call.invoked /\ FaultedWithoutReport(scan.call.run)) =>
        /\ scan.call.result = CorpusResult(scan.files[scan.call.directory], 0)
        /\ scan.outcome # "raised"

C13_Witness ==
    /\ scan.call.invoked
    /\ scan.call.total = MaxDirFiles
    /\ scan.call.run.kind = "exit"
    /\ scan.call.run.returncode # 0
    /\ scan.call.run.stdout.parse = "malformed"

\* C14: once an evaluation has returned or raised, the temporary rule file it
\* created is gone.
C14_TempFileDeleted == scan.pc = "done" => ~scan.temp_file

\* C15: a scan of a directory without regular files returns total_files = 0
\* and matched_files = 0, and the engine is not invoked.
C15_EmptyNotScanned ==
    (Called /\ scan.call.total = 0) =>
        /\ scan.call.result = CorpusResult(0, 0)
        /\ ~scan.call.invoked

C15_Witness ==
    /\ scan.call.directory = "benign"
    /\ scan.call.total = 0
    /\ scan.files["lab"] > 0

\* C16: every result of a scan has 0 <= matched_files <= total_files.
C16_MatchedWithinTotal ==
    Called =>
        /\ 0 <= scan.call.result.matched_files
        /\ scan.call.result.matched_files <= scan.call.result.total_files

\* C20: the status the API derives from a verdict is "All Samples Detected"
\* exactly when the scanner's passed flag is true.
C20_StatusAgreesWithPassed ==
    scan.outcome = "verdict" =>
        (verdict.scan_status = "All Samples Detected" <=> scan.passed)

\* ------------------------------------------------- session store claims
Issued == {s \in Minted : minted_at[s] >= 0}
Unexpired(s) == now - session_data[s].created_at < ExpiryTicks
\* the last step resolved a session, and nothing has happened since
JustResolved == last.step = "start" /\ last.at = now
\* the last step found the presented session unexpired and kept it
KeptSession(l) == l.step = "start" /\ l.cookie # NoCookie /\ l.session_id = l.cookie

\* C17 (as stated): at all times the store holds no record of the expiry age
\* or older, and holds a record of every issued id younger than that.
C17_RecordIffUnexpired ==
    /\ \A s \in DOMAIN session_data : Unexpired(s)
    /\ \A s \in Issued :
        now - minted_at[s] < ExpiryTicks => s \in DOMAIN session_data

\* C17 (amended): the store holds records of issued ids only, and one of every
\* issued id younger than the expiry age; right after a resolution that swept
\* the store no record of the expiry age or older is left, and right after a
\* resolution that was presented such a record, that record is gone.
C17_RecordsRemovedLazily ==
    /\ DOMAIN session_data \subseteq Issued
    /\ \A s \in Issued :
        now - minted_at[s] < ExpiryTicks => s \in DOMAIN session_data
    /\ (JustResolved /\ last.swept) => \A s \in DOMAIN session_data : Unexpired(s)
    /\ (JustResolved /\ last.cookie_age >= ExpiryTicks)
            => last.cookie \notin DOMAIN session_data

C17_Witness ==
    /\ JustResolved
    /\ last.swept
    /\ \E s \in Issued : s # last.cookie /\ s \notin DOMAIN session_data

\* resolving a session that is kept leaves its record as it was
ResolveKeepsRecord ==
    KeptSession(last')
        => /\ last'.cookie \in DOMAIN session_data
           /\ session_data'[last'.cookie] = session_data[last'.cookie]

\* C18 (as stated): a session resolved twice in a row, with no upload between,
\* gets the same rate-limit decision both times; resolving and checking leave
\* its created_at and last_upload as they were.
C18_SameDecisionTwice ==
    /\ [](last.again => last.allowed = last.prev_allowed)
    /\ [][ResolveKeepsRecord]_vars

\* C18 (amended): the same, for two resolutions at one reading of the clock.
C18_SameDecisionAtSameTime ==
    /\ []((last.again /\ last.prev_at = last.at)
            => last.allowed = last.prev_allowed)
    /\ [][ResolveKeepsRecord]_vars

C18_Witness ==
    /\ last.again
    /\ last.prev_at = last.at
    /\ ~last.allowed
    /\ accepted[last.cookie] >= 0

\* C19: the created_at of a session id is the one it was first recorded with,
\* and no id is resolved as unexpired once that time plus the expiry window
\* (3600 s) has been reached.
C19_ExpiryAbsolute ==
    /\ \A s \in DOMAIN session_data \cap Issued :
        session_data[s].created_at = minted_at[s]
    /\ (KeptSession(last) /\ last.cookie \in Issued)
            => last.at < minted_at[last.cookie] + ExpiryTicks

====
